---- MODULE Spec2Model ----
(***************************************************************************)
(* Review-state machine of gmail-tripit-web: the SQLite store kept by      *)
(* DatabaseManager (backend/src/database.ts) and the route handlers that   *)
(* mutate it (backend/src/routes.ts).                                      *)
(*                                                                         *)
(* The three tables are sets of rows.  A request handler is one action;    *)
(* the statements it runs are applied in the order of the source.  No      *)
(* handler opens a transaction, so a statement that throws leaves the      *)
(* writes of the statements before it in place; insertCandidates is the    *)
(* only multi-statement unit wrapped in db.transaction.                    *)
(*                                                                         *)
(* The read handlers (next-batch, search, stats) and the scorer of         *)
(* backend/src/classifier.ts are functions of the store or of one email;   *)
(* each has a specification of its own whose initial states are the        *)
(* stores or emails it is applied to.  Text is a tuple of one-character    *)
(* strings, so that substring search, LIKE and the regular expressions of  *)
(* the scorer are computed character by character.                         *)
(***************************************************************************)
EXTENDS Integers, Sequences, FiniteSets, TLC

\* ------------------------------------------------------------------ bounds
MaxTime == 1          \* CURRENT_TIMESTAMP values 0..MaxTime (whole seconds)
MaxDecisionId == 2    \* review_decisions AUTOINCREMENT ids handed out
MaxBatch == 2         \* rows in one insertCandidates call
MaxRows == 3          \* rows of a store that is read with its rows told apart
MaxTotal == 40        \* rows of a store whose statistics are read
MaxCards == 4         \* rows of the store the App component reviews
MaxInFlight == 2      \* requests of the App component awaiting their answers
MaxSubmits == 4       \* submitReview calls of the App component

\* Message identifiers the mailbox supplies: the texts m1 and m2.
MsgIds == {<<"m", "1">>, <<"m", "2">>}
Scores == {20, 50}                \* confidence_score values of ingested rows
Verdicts == {"true", "false", "missing"}  \* is_flight_confirmation of a body

VARIABLES
  email_candidates,   \* table email_candidates
  review_decisions,   \* table review_decisions
  confirmed_flights,  \* table confirmed_flights (its UNIQUE message_id)
  decision_seq,       \* sqlite_sequence entry of review_decisions
  now,                \* CURRENT_TIMESTAMP of the store, in seconds
  faults,             \* whether a statement of the store may throw
  last,               \* the last mutating request and its response
  pre,                \* the tables before that request, kept for a review
  tie_order,          \* order in which the store emits rows of equal sort key
  emailData,          \* the EmailData record handed to the scorer
  reply,              \* the last read or scorer call and what it returned
  app                 \* the state of the frontend's App component

vars == <<email_candidates, review_decisions, confirmed_flights,
          decision_seq, now, faults, last, pre, tie_order, emailData, reply,
          app>>

\* What the mutating handlers never touch.
readSide == <<tie_order, emailData, reply>>

tables == <<email_candidates, review_decisions, confirmed_flights>>

\* -------------------------------------------------------------------- text
\* The printable ASCII characters in code order, 32 (space) to 126; the
\* grave accent (96) is spelled out.
ASCII ==
  <<" ", "!", "\"", "#", "$", "%", "&", "'", "(", ")", "*", "+">> \o
  <<",", "-", ".", "/", "0", "1", "2", "3", "4", "5", "6", "7">> \o
  <<"8", "9", ":", ";", "<", "=", ">", "?", "@", "A", "B", "C">> \o
  <<"D", "E", "F", "G", "H", "I", "J", "K", "L", "M", "N", "O">> \o
  <<"P", "Q", "R", "S", "T", "U", "V", "W", "X", "Y", "Z", "[">> \o
  <<"\\", "]", "^", "_", "grave", "a", "b", "c", "d", "e", "f", "g">> \o
  <<"h", "i", "j", "k", "l", "m", "n", "o", "p", "q", "r", "s">> \o
  <<"t", "u", "v", "w", "x", "y", "z", "{", "|", "}", "~">>

charCode == [c \in {ASCII[i] : i \in 1..Len(ASCII)} |->
               31 + CHOOSE i \in 1..Len(ASCII) : ASCII[i] = c]

isUpper(c) == charCode[c] \in 65..90

isDigit(c) == charCode[c] \in 48..57

\* \w of a regular expression: [A-Za-z0-9_].
isWordChar(c) ==
  isUpper(c) \/ isDigit(c) \/ charCode[c] \in 97..122 \/ c = "_"

\* String.prototype.toLowerCase and the case folding of SQLite's LIKE, which
\* agree on ASCII text.
lowerChar(c) == IF isUpper(c) THEN ASCII[charCode[c] + 32 - 31] ELSE c

toLowerCase(text) == [i \in 1..Len(text) |-> lowerChar(text[i])]

\* String.prototype.includes.
includes(text, needle) ==
  \E i \in 0..(Len(text) - Len(needle)) :
    \A j \in 1..Len(needle) : text[i + j] = needle[j]

\* The BINARY collation of a TEXT column: byte by byte, a proper prefix first.
textLess(a, b) ==
  \E i \in 1..Len(b) :
    /\ \A j \in 1..(i - 1) : j <= Len(a) /\ a[j] = b[j]
    /\ \/ i = Len(a) + 1
       \/ i <= Len(a) /\ charCode[a[i]] < charCode[b[i]]

\* text LIKE pattern without ESCAPE: % is any run of characters, _ is any
\* one character, every other character matches itself in either case.
RECURSIVE like(_, _)
like(text, pattern) ==
  IF pattern = <<>> THEN text = <<>>
  ELSE IF Head(pattern) = "%"
    THEN \E k \in 0..Len(text) :
           like(SubSeq(text, k + 1, Len(text)), Tail(pattern))
  ELSE /\ text # <<>>
       /\ Head(pattern) = "_" \/ lowerChar(Head(pattern)) = lowerChar(Head(text))
       /\ like(Tail(text), Tail(pattern))

\* The JavaScript value undefined where a text is expected.
undefinedText == <<"undefined">>

\* ------------------------------------------------------------ classifier.ts
KNOWN_AIRLINE_SENDERS ==
  <<<<"u", "n", "i", "t", "e", "d", ".", "c", "o", "m">>,
    <<"d", "e", "l", "t", "a", ".", "c", "o", "m">>,
    <<"a", "a", ".", "c", "o", "m">>,
    <<"s", "o", "u", "t", "h", "w", "e", "s", "t", ".", "c", "o", "m">>,
    <<"j", "e", "t", "b", "l", "u", "e", ".", "c", "o", "m">>,
    <<"a", "l", "a", "s", "k", "a", "a", "i", "r", ".", "c", "o", "m">>,
    <<"s", "p", "i", "r", "i", "t", ".", "c", "o", "m">>,
    <<"f", "r", "o", "n", "t", "i", "e", "r", ".", "c", "o", "m">>,
    <<"a", "l", "l", "e", "g", "i", "a", "n", "t", "a", "i", "r", ".", "c", "o", "m">>>>

KNOWN_OTA_SENDERS ==
  <<<<"e", "x", "p", "e", "d", "i", "a", ".", "c", "o", "m">>,
    <<"k", "a", "y", "a", "k", ".", "c", "o", "m">>,
    <<"p", "r", "i", "c", "e", "l", "i", "n", "e", ".", "c", "o", "m">>,
    <<"b", "o", "o", "k", "i", "n", "g", ".", "c", "o", "m">>,
    <<"o", "r", "b", "i", "t", "z", ".", "c", "o", "m">>,
    <<"t", "r", "a", "v", "e", "l", "o", "c", "i", "t", "y", ".", "c", "o", "m">>,
    <<"h", "o", "t", "w", "i", "r", "e", ".", "c", "o", "m">>,
    <<"c", "h", "e", "a", "p", "o", "a", "i", "r", ".", "c", "o", "m">>>>

CONFIRMATION_KEYWORDS ==
  <<<<"c", "o", "n", "f", "i", "r", "m", "a", "t", "i", "o", "n">>,
    <<"c", "o", "n", "f", "i", "r", "m", "e", "d">>,
    <<"i", "t", "i", "n", "e", "r", "a", "r", "y">>,
    <<"b", "o", "o", "k", "i", "n", "g">>,
    <<"r", "e", "c", "e", "i", "p", "t">>>>

FLIGHT_KEYWORDS ==
  <<<<"f", "l", "i", "g", "h", "t">>,
    <<"a", "i", "r", "l", "i", "n", "e">>,
    <<"b", "o", "a", "r", "d", "i", "n", "g">>,
    <<"d", "e", "p", "a", "r", "t", "u", "r", "e">>,
    <<"a", "r", "r", "i", "v", "a", "l">>>>

CONFIDENCE_THRESHOLD == 30

FlightReservation ==
  <<"F", "l", "i", "g", "h", "t", "R", "e", "s", "e", "r", "v", "a", "t",
    "i", "o", "n">>

SchemaOrgFlightReservation ==
  <<"s", "c", "h", "e", "m", "a", ".", "o", "r", "g", "/", "F", "l", "i",
    "g", "h", "t", "R", "e", "s", "e", "r", "v", "a", "t", "i", "o", "n">>

hasFlightReservationSchema(html) ==
  includes(html, FlightReservation)
    \/ includes(html, SchemaOrgFlightReservation)

\* Array.prototype.some over a list of needles.
someIncluded(text, needles) ==
  \E i \in 1..Len(needles) : includes(text, needles[i])

isKnownSender(email) ==
  LET lowerEmail == toLowerCase(email)
  IN  someIncluded(lowerEmail, KNOWN_AIRLINE_SENDERS)
        \/ someIncluded(lowerEmail, KNOWN_OTA_SENDERS)

\* Mutant: the subject is searched as written.
hasConfirmationKeywords_asWritten(subject) ==
  someIncluded(subject, CONFIRMATION_KEYWORDS)

hasConfirmationKeywords(subject) ==
  LET lowerSubject == toLowerCase(subject)
  IN  someIncluded(lowerSubject, CONFIRMATION_KEYWORDS)

hasFlightKeywords(subject) ==
  LET lowerSubject == toLowerCase(subject)
  IN  someIncluded(lowerSubject, FLIGHT_KEYWORDS)

\* \b of a regular expression before position i of text: exactly one of the
\* characters at i - 1 and at i is a word character, the ends counting as
\* non-word characters.
wordAt(text, i) == i \in 1..Len(text) /\ isWordChar(text[i])

wordBoundary(text, i) == wordAt(text, i - 1) # wordAt(text, i)

\* /\b[A-Z0-9]{6}\b/.test(text)
testConfirmationCode(text) ==
  \E i \in 1..(Len(text) - 5) :
    /\ wordBoundary(text, i)
    /\ \A j \in i..(i + 5) : isUpper(text[j]) \/ isDigit(text[j])
    /\ wordBoundary(text, i + 6)

\* /\b[A-Z]{2}\d{1,4}\b/.test(text)
testFlightNumber(text) ==
  \E i \in 1..(Len(text) - 2) :
    \E n \in 1..4 :
      /\ i + 1 + n <= Len(text)
      /\ wordBoundary(text, i)
      /\ isUpper(text[i]) /\ isUpper(text[i + 1])
      /\ \A j \in (i + 2)..(i + 1 + n) : isDigit(text[j])
      /\ wordBoundary(text, i + 2 + n)

\* /\b[A-Z]{3}\b/.test(text)
testAirportCode(text) ==
  \E i \in 1..(Len(text) - 2) :
    /\ wordBoundary(text, i)
    /\ \A j \in i..(i + 2) : isUpper(text[j])
    /\ wordBoundary(text, i + 3)

ConfirmationCodeMarker ==
  <<"c", "o", "n", "f", "i", "r", "m", "a", "t", "i", "o", "n", " ", "c",
    "o", "d", "e">>

FlightNumberMarker ==
  <<"f", "l", "i", "g", "h", "t", " ", "n", "u", "m", "b", "e", "r">>

AirportCodeMarker ==
  <<"a", "i", "r", "p", "o", "r", "t", " ", "c", "o", "d", "e">>

detectFlightMarkers(text) ==
  (IF testConfirmationCode(text) THEN <<ConfirmationCodeMarker>> ELSE <<>>)
    \o (IF testFlightNumber(text) THEN <<FlightNumberMarker>> ELSE <<>>)
    \o (IF testAirportCode(text) THEN <<AirportCodeMarker>> ELSE <<>>)

\* Array.prototype.join.
RECURSIVE join(_, _)
join(list, separator) ==
  IF list = <<>> THEN <<>>
  ELSE IF Len(list) = 1 THEN list[1]
  ELSE list[1] \o separator \o join(Tail(list), separator)

SchemaReason ==
  <<"H", "a", "s", " ", "F", "l", "i", "g", "h", "t", "R", "e", "s", "e",
    "r", "v", "a", "t", "i", "o", "n", " ", "s", "c", "h", "e", "m", "a",
    " ", "m", "a", "r", "k", "u", "p">>

SenderReason ==
  <<"K", "n", "o", "w", "n", " ", "a", "i", "r", "l", "i", "n", "e", "/",
    "O", "T", "A", " ", "s", "e", "n", "d", "e", "r">>

ConfirmationReason ==
  <<"C", "o", "n", "f", "i", "r", "m", "a", "t", "i", "o", "n", " ", "k",
    "e", "y", "w", "o", "r", "d", " ", "i", "n", " ", "s", "u", "b", "j",
    "e", "c", "t">>

FlightReason ==
  <<"F", "l", "i", "g", "h", "t", " ", "k", "e", "y", "w", "o", "r", "d",
    " ", "i", "n", " ", "s", "u", "b", "j", "e", "c", "t">>

MarkersPrefix ==
  <<"F", "l", "i", "g", "h", "t", " ", "m", "a", "r", "k", "e", "r", "s",
    ":", " ">>

CommaSpace == <<",", " ">>

\* The result of a call: threw tells that the call ended in a TypeError, and
\* then it returned no score and no reasons.
NoResult == [threw |-> FALSE, score |-> 0, reasons |-> <<>>]

Thrown == [threw |-> TRUE, score |-> 0, reasons |-> <<>>]

\* if (fires) { score += weight; reasons.push(reason); }
addRule_overwrite(result, fires, weight, reason) ==
  IF fires
    THEN [result EXCEPT !.score = weight,
                        !.reasons = Append(@, reason)]
    ELSE result

addRule(result, fires, weight, reason) ==
  IF fires
    THEN [result EXCEPT !.score = @ + weight,
                        !.reasons = Append(@, reason)]
    ELSE result

\* Mutant: the flight keyword rule is the else branch of the confirmation
\* keyword rule.
calculateConfidenceScore_elseIf(email) ==
  IF undefinedText \in {email.html, email.from_email, email.subject}
    THEN Thrown
    ELSE
      LET text == IF email.plain_text = undefinedText
                    THEN <<>> ELSE email.plain_text
          markersFound == detectFlightMarkers(text)
          schema == addRule(NoResult, hasFlightReservationSchema(email.html),
                            50, SchemaReason)
          sender == addRule(schema, isKnownSender(email.from_email),
                            20, SenderReason)
          confirmation == addRule(sender,
                                  hasConfirmationKeywords(email.subject),
                                  15, ConfirmationReason)
          flight == addRule(confirmation,
                            ~hasConfirmationKeywords(email.subject)
                              /\ hasFlightKeywords(email.subject),
                            10, FlightReason)
      IN  addRule(flight, Len(markersFound) >= 2, 10,
                  MarkersPrefix \o join(markersFound, CommaSpace))

\* html, from_email and subject are used as strings: a call on undefined
\* throws.  Only plain_text is defaulted.
calculateConfidenceScore(email) ==
  IF undefinedText \in {email.html, email.from_email, email.subject}
    THEN Thrown
    ELSE
      LET text == IF email.plain_text = undefinedText
                    THEN <<>> ELSE email.plain_text
          markersFound == detectFlightMarkers(text)
          schema == addRule(NoResult, hasFlightReservationSchema(email.html),
                            50, SchemaReason)
          sender == addRule(schema, isKnownSender(email.from_email),
                            20, SenderReason)
          confirmation == addRule(sender,
                                  hasConfirmationKeywords(email.subject),
                                  15, ConfirmationReason)
          flight == addRule(confirmation, hasFlightKeywords(email.subject),
                            10, FlightReason)
      IN  addRule(flight, Len(markersFound) >= 2, 10,
                  MarkersPrefix \o join(markersFound, CommaSpace))

isCandidateForReview_above(email) ==
  LET result == calculateConfidenceScore(email)
  IN  [threw |-> result.threw,
       isCandidate |-> ~result.threw /\ result.score > CONFIDENCE_THRESHOLD,
       score |-> result.score,
       reasons |-> result.reasons]

isCandidateForReview(email) ==
  LET result == calculateConfidenceScore(email)
  IN  [threw |-> result.threw,
       isCandidate |-> ~result.threw /\ result.score >= CONFIDENCE_THRESHOLD,
       score |-> result.score,
       reasons |-> result.reasons]

\* ---------------------------------------------------------- gmail-client.ts
\* A message of the Gmail API: payload.headers is a list of [name, value],
\* payload.mimeType a text, and a payload or part has data (its body?.data,
\* here the text the base64 payload decodes to), which may be undefined, and
\* parts.  Parts left out are the empty list: the code treats the two alike.

SubjectHeader == <<"S", "u", "b", "j", "e", "c", "t">>

FromHeader == <<"F", "r", "o", "m">>

DateHeader == <<"D", "a", "t", "e">>

MessageIdHeader == <<"M", "e", "s", "s", "a", "g", "e", "-", "I", "D">>

TextHtml == <<"t", "e", "x", "t", "/", "h", "t", "m", "l">>

TextPlain == <<"t", "e", "x", "t", "/", "p", "l", "a", "i", "n">>

MultipartAlternative ==
  <<"m", "u", "l", "t", "i", "p", "a", "r", "t", "/", "a", "l", "t", "e",
    "r", "n", "a", "t", "i", "v", "e">>

MultipartMixed ==
  <<"m", "u", "l", "t", "i", "p", "a", "r", "t", "/", "m", "i", "x", "e",
    "d">>

\* header ? header.value : '' for the first header of that name, the case
\* of the name ignored.
getHeader(headers, name) ==
  LET found == {i \in 1..Len(headers) :
                  toLowerCase(headers[i].name) = toLowerCase(name)}
  IN  IF found = {} THEN <<>>
      ELSE headers[CHOOSE i \in found : \A j \in found : i <= j].value

\* A value that is neither undefined nor the empty string.
truthy(text) == text # undefinedText /\ text # <<>>

\* The html and the plain text collected from a list of parts, in order.
RECURSIVE extractParts(_, _)
extractParts(parts, content) ==
  IF parts = <<>> THEN content
  ELSE
    LET part == Head(parts)
        after ==
          IF part.mimeType = TextHtml /\ truthy(part.data)
            THEN [content EXCEPT !.html = @ \o part.data]
          ELSE IF part.mimeType = TextPlain /\ truthy(part.data)
            THEN [content EXCEPT !.plain = @ \o part.data]
          ELSE extractParts(part.parts, content)
    IN  extractParts(Tail(parts), after)

\* The preview text that the method also computes is not part of its result.
extractContent(payload) ==
  IF truthy(payload.data)
    THEN IF payload.mimeType = TextHtml
           THEN [html |-> payload.data, plain |-> <<>>]
           ELSE [html |-> <<>>, plain |-> payload.data]
  ELSE extractParts(payload.parts, [html |-> <<>>, plain |-> <<>>])

extractEmailData_absentHtml(message) ==
  LET content == extractContent(message.payload)
  IN  [message_id |-> getHeader(message.payload.headers, MessageIdHeader),
       subject |-> getHeader(message.payload.headers, SubjectHeader),
       from_email |-> getHeader(message.payload.headers, FromHeader),
       date |-> getHeader(message.payload.headers, DateHeader),
       html |-> IF content.html = <<>> THEN undefinedText ELSE content.html,
       plain_text |-> content.plain]

extractEmailData(message) ==
  LET content == extractContent(message.payload)
  IN  [message_id |-> getHeader(message.payload.headers, MessageIdHeader),
       subject |-> getHeader(message.payload.headers, SubjectHeader),
       from_email |-> getHeader(message.payload.headers, FromHeader),
       date |-> getHeader(message.payload.headers, DateHeader),
       html |-> content.html,
       plain_text |-> content.plain]


\* ------------------------------------------------------------------ number
\* The Number type of JavaScript is IEEE 754 binary64.  A positive double is
\* kept as [bits, exp]: bits are its 53 significant binary digits, the first
\* of them 1, and exp is the binary exponent of the last one, so the value
\* is bits read as a number times 2^exp.  Arithmetic on the digits goes in
\* limbs of 13 digits, which keeps every intermediate number small.
SignificantBits == 53

LimbBits == 13

Limbs == 4

Front(digits) == SubSeq(digits, 1, Len(digits) - 1)

Last(digits) == digits[Len(digits)]

RECURSIVE twoToThe(_)
twoToThe(n) == IF n = 0 THEN 1 ELSE 2 * twoToThe(n - 1)

RECURSIVE number(_)
number(digits) ==
  IF digits = <<>> THEN 0 ELSE 2 * number(Front(digits)) + Last(digits)

\* The w binary digits of n < 2^w, leading zeros kept.
fixed(n, w) == [i \in 1..w |-> (n \div twoToThe(w - i)) % 2]

\* digits without its leading zeros.
significant(digits) ==
  LET ones == {i \in 1..Len(digits) : digits[i] = 1}
  IN  IF ones = {} THEN <<>>
      ELSE SubSeq(digits, CHOOSE i \in ones : \A j \in ones : i <= j,
                  Len(digits))

\* digits + 1: the last 0 becomes 1 and the ones after it 0.
increment(digits) ==
  LET zeros == {i \in 1..Len(digits) : digits[i] = 0}
  IN  IF zeros = {} THEN <<1>> \o [i \in 1..Len(digits) |-> 0]
      ELSE LET p == CHOOSE i \in zeros : \A j \in zeros : j <= i
           IN  [i \in 1..Len(digits) |->
                  IF i < p THEN digits[i] ELSE IF i = p THEN 1 ELSE 0]

\* Round to nearest, ties to even.  kept are the 53 digits before the cut,
\* exp the exponent of the last of them, and rest tells whether what was cut
\* off is below (-1), at (0) or above (1) half a unit of that digit.
roundToDouble(kept, exp, rest) ==
  LET up == rest > 0 \/ (rest = 0 /\ Last(kept) = 1)
      digits == IF up THEN increment(kept) ELSE kept
  IN  IF Len(digits) > SignificantBits
        THEN [bits |-> Front(digits), exp |-> exp + 1]
        ELSE [bits |-> digits, exp |-> exp]

\* Long division of rem / b for 0 <= rem < b, a limb at a time: the
\* remainder that is left after n limbs of the quotient, and the limbs.
RECURSIVE remainderAfter(_, _, _)
remainderAfter(rem, b, n) ==
  IF n = 0 THEN rem
  ELSE (remainderAfter(rem, b, n - 1) * twoToThe(LimbBits)) % b

RECURSIVE quotientDigits(_, _, _)
quotientDigits(rem, b, n) ==
  IF n = 0 THEN <<>>
  ELSE quotientDigits(rem, b, n - 1)
         \o fixed((remainderAfter(rem, b, n - 1) * twoToThe(LimbBits))
                    \div b, LimbBits)

RECURSIVE leadingShift(_, _)
leadingShift(a, b) == IF a >= b THEN 0 ELSE 1 + leadingShift(2 * a, b)

\* a / b of two integers with 0 < a <= b, correctly rounded.
divide(a, b) ==
  LET shift == leadingShift(a, b)
      first == a * twoToThe(shift) - b
      rem == remainderAfter(first, b, Limbs)
      rest == IF 2 * rem > b THEN 1 ELSE IF 2 * rem = b THEN 0 ELSE -1
  IN  roundToDouble(<<1>> \o quotientDigits(first, b, Limbs),
                    0 - shift - Limbs * LimbBits, rest)

\* The digits of digits * k + carry for a small integer k, a limb at a time
\* from the last one; leading zeros may remain.
RECURSIVE timesDigits(_, _, _)
timesDigits(digits, k, carry) ==
  IF Len(digits) <= LimbBits
    THEN fixed(number(digits) * k + carry, 2 * LimbBits)
    ELSE LET cut == Len(digits) - LimbBits
             v == number(SubSeq(digits, cut + 1, Len(digits))) * k + carry
         IN  timesDigits(SubSeq(digits, 1, cut), k,
                         v \div twoToThe(LimbBits))
               \o fixed(v % twoToThe(LimbBits), LimbBits)

\* x * k of a double and a small positive integer, correctly rounded.
times(x, k) ==
  LET product == significant(timesDigits(x.bits, k, 0))
      cut == SubSeq(product, SignificantBits + 1, Len(product))
      rest == IF cut = <<>> \/ Head(cut) = 0 THEN -1
              ELSE IF \E i \in 2..Len(cut) : cut[i] = 1 THEN 1 ELSE 0
  IN  roundToDouble(SubSeq(product, 1, SignificantBits),
                    x.exp + Len(cut), rest)

\* Math.round of a double below 2^53: the integer below it, plus one when
\* the digit worth one half is set.
mathRound(x) ==
  LET whole == SignificantBits + x.exp
  IN  IF whole < 0 THEN 0
      ELSE number(SubSeq(x.bits, 1, whole))
             + (IF whole < SignificantBits THEN x.bits[whole + 1] ELSE 0)

\* ------------------------------------------------------- database.ts reads
MaxOf(S) == IF S = {} THEN 0 ELSE CHOOSE x \in S : \A y \in S : y <= x

getCandidateByMessageId(cands, messageId) ==
  {c \in cands : c.message_id = messageId}

countUnreviewed(cands) == Cardinality({c \in cands : c.reviewed = 0})

countReviewed(cands) == Cardinality({c \in cands : c.reviewed = 1})

countTotalCandidates(cands) == Cardinality(cands)

countConfirmedFlights(decs) ==
  Cardinality({d \in decs : d.is_flight_confirmation = 1})

countRejected(decs) ==
  Cardinality({d \in decs : d.is_flight_confirmation = 0})

\* total === 0 ? 0 : Math.round((reviewed / total) * 100); 0 / total is 0.
reviewRate(reviewed, total) ==
  IF total = 0 \/ reviewed = 0 THEN 0
  ELSE mathRound(times(divide(reviewed, total), 100))

calculateReviewRate(cands) ==
  reviewRate(countReviewed(cands), countTotalCandidates(cands))

getStats(cands, decs) ==
  [total_candidates |-> countTotalCandidates(cands),
   reviewed |-> countReviewed(cands),
   unreviewed |-> countUnreviewed(cands),
   confirmed_flights |-> countConfirmedFlights(decs),
   rejected |-> countRejected(decs),
   review_rate |-> calculateReviewRate(cands)]

\* ORDER BY reviewed_at DESC LIMIT 1: the rows that may be returned.  SQL
\* leaves the order of rows with equal reviewed_at open, so every row that
\* carries the greatest timestamp is a possible answer.
getLastDecision(decs) ==
  {d \in decs : \A e \in decs : e.reviewed_at <= d.reviewed_at}

\* The ORDER BY of a read: "score_date" is confidence_score DESC, msg_date
\* DESC (getUnreviewedCandidates), "date" is msg_date DESC (searchCandidates).
\* Rows equal in every sort key come out in the order the store scans them,
\* by ascending or by descending rowid.
\* Mutant: msg_date ASC.
rowBefore_oldestFirst(a, b, orderBy, tieOrder) ==
  LET tie == IF tieOrder = "rowid_asc" THEN a.id < b.id ELSE a.id > b.id
      byDate == IF a.msg_date = b.msg_date THEN tie
                ELSE textLess(a.msg_date, b.msg_date)
  IN  IF orderBy = "score_date"
        THEN \/ a.confidence_score > b.confidence_score
             \/ a.confidence_score = b.confidence_score /\ byDate
        ELSE byDate

rowBefore(a, b, orderBy, tieOrder) ==
  LET tie == IF tieOrder = "rowid_asc" THEN a.id < b.id ELSE a.id > b.id
      byDate == IF a.msg_date = b.msg_date THEN tie
                ELSE textLess(b.msg_date, a.msg_date)
  IN  IF orderBy = "score_date"
        THEN \/ a.confidence_score > b.confidence_score
             \/ a.confidence_score = b.confidence_score /\ byDate
        ELSE byDate

\* The rows of email_candidates in rowid order.  No statement deletes from
\* the table, so the AUTOINCREMENT ids in it are 1..N.
tableScan(cands) ==
  [i \in 1..Cardinality(cands) |-> CHOOSE c \in cands : c.id = i]

sortRows(rows, orderBy, tieOrder) ==
  SortSeq(rows, LAMBDA a, b : rowBefore(a, b, orderBy, tieOrder))

\* LIMIT n of SQLite: a negative n is no limit.
limitRows(sorted, n) ==
  IF n < 0 \/ n >= Len(sorted) THEN sorted ELSE SubSeq(sorted, 1, n)

getUnreviewedCandidates(cands, limit, tieOrder) ==
  limitRows(sortRows(SelectSeq(tableScan(cands), LAMBDA c : c.reviewed = 0),
                     "score_date", tieOrder),
            limit)

\* WHERE (subject LIKE ? OR from_email LIKE ? OR message_id LIKE ?) with
\* '%' + query + '%' bound three times, AND reviewed = ? when a filter is
\* given ("any" is none), ORDER BY msg_date DESC LIMIT 100.
searchCandidates(cands, query, reviewedFilter, tieOrder) ==
  LET pattern == <<"%">> \o query \o <<"%">>
      Selected(c) ==
        /\ \/ like(c.subject, pattern)
           \/ like(c.from_email, pattern)
           \/ like(c.message_id, pattern)
        /\ reviewedFilter = "true" => c.reviewed = 1
        /\ reviewedFilter = "false" => c.reviewed = 0
  IN  limitRows(sortRows(SelectSeq(tableScan(cands), Selected),
                         "date", tieOrder),
                100)

\* ------------------------------------------------------ database.ts writes
insertReviewDecision(decs, seq, emailCandidateId, messageId, isFlight, t) ==
  decs \cup {[id |-> seq + 1,
              email_candidate_id |-> emailCandidateId,
              message_id |-> messageId,
              is_flight_confirmation |-> IF isFlight THEN 1 ELSE 0,
              reviewed_at |-> t]}

\* Mutant: SET reviewed = reviewed + 1 instead of SET reviewed = 1.
markAsReviewed_increment(cands, candidateId) ==
  {IF c.id = candidateId THEN [c EXCEPT !.reviewed = c.reviewed + 1] ELSE c :
     c \in cands}

markAsReviewed(cands, candidateId) ==
  {IF c.id = candidateId THEN [c EXCEPT !.reviewed = 1] ELSE c : c \in cands}

\* Mutant: the UPDATE without its WHERE clause.
markAsUnreviewed_all(cands, candidateId) ==
  {[c EXCEPT !.reviewed = 0] : c \in cands}

markAsUnreviewed(cands, candidateId) ==
  {IF c.id = candidateId THEN [c EXCEPT !.reviewed = 0] ELSE c : c \in cands}

\* Mutant: the confirmed_flights insert is lost.
insertConfirmedFlight_lost(flights, messageId) == flights

insertConfirmedFlight(flights, messageId) == flights \cup {messageId}

\* Mutant: DELETE ... WHERE email_candidate_id = ? instead of WHERE id = ?.
deleteDecision_byCandidate(decs, decisionId) ==
  {d \in decs : d.email_candidate_id # decisionId}

deleteDecision(decs, decisionId) == {d \in decs : d.id # decisionId}

\* The JavaScript value null (or undefined) of a record field, which the
\* driver binds as NULL, and a value it refuses to bind: anything that is
\* not a number, a string, a bigint, a buffer or null, such as a Date.
jsNull == <<"null">>

jsObject == <<"object">>

\* Whether stmt.run accepts the fields of the record.
bindable(c) == c.msg_date # jsObject

\* Mutant: a plain INSERT into a table without the UNIQUE constraint.
insertOrIgnoreCandidate_always(cands, c) ==
  cands \cup {[id |-> MaxOf({r.id : r \in cands}) + 1,
                message_id |-> c.message_id,
                subject |-> c.subject,
                from_email |-> c.from_email,
                msg_date |-> c.msg_date,
                confidence_score |-> c.confidence_score,
                reviewed |-> 0]}

\* Mutant: INSERT OR REPLACE, which deletes the stored row of the same
\* message_id and inserts the new one.
insertOrIgnoreCandidate_replace(cands, c) ==
  IF c.message_id = jsNull
    THEN cands
    ELSE {r \in cands : r.message_id # c.message_id}
           \cup {[id |-> MaxOf({r.id : r \in cands}) + 1,
                  message_id |-> c.message_id,
                  subject |-> c.subject,
                  from_email |-> c.from_email,
                  msg_date |-> c.msg_date,
                  confidence_score |-> c.confidence_score,
                  reviewed |-> 0]}

\* One INSERT OR IGNORE INTO email_candidates: a row whose message_id is
\* already stored (UNIQUE) or is NULL (NOT NULL) is dropped without an error;
\* a new row gets the next AUTOINCREMENT id and the column default
\* reviewed = 0.
insertOrIgnoreCandidate(cands, c) ==
  IF c.message_id = jsNull \/ \E r \in cands : r.message_id = c.message_id
    THEN cands
    ELSE cands \cup {[id |-> MaxOf({r.id : r \in cands}) + 1,
                      message_id |-> c.message_id,
                      subject |-> c.subject,
                      from_email |-> c.from_email,
                      msg_date |-> c.msg_date,
                      confidence_score |-> c.confidence_score,
                      reviewed |-> 0]}

RECURSIVE insertCandidates(_, _)
insertCandidates(cands, batch) ==
  IF batch = <<>>
    THEN cands
    ELSE insertCandidates(insertOrIgnoreCandidate(cands, Head(batch)),
                          Tail(batch))

\* ------------------------------------------------------------------ inputs
\* msg_date values, written as the repository's tests write them.
Jan01 == <<"2", "0", "2", "4", "-", "0", "1", "-", "0", "1">>

Jan02 == <<"2", "0", "2", "4", "-", "0", "1", "-", "0", "2">>

\* Rows offered for ingestion: "m1" comes with either score, so that a
\* re-ingested identifier can carry different content.
CandidateInputs ==
  {c \in [message_id : MsgIds, subject : {<<>>}, from_email : {<<>>},
          msg_date : {Jan01}, confidence_score : Scores] :
     c.message_id = <<"m", "1">> \/ c.confidence_score = 50}

RECURSIVE SeqsUpTo(_, _)
SeqsUpTo(S, n) ==
  IF n = 0 THEN {<<>>}
  ELSE LET shorter == SeqsUpTo(S, n - 1)
       IN  shorter \cup {Append(s, x) : s \in shorter, x \in S}

Batches == SeqsUpTo(CandidateInputs, MaxBatch)

\* Records as a mailbox scan may hand them over: the ones above, one whose
\* message_id is missing and one whose msg_date is a Date object.
MailInputs ==
  CandidateInputs \cup
  {[message_id |-> jsNull, subject |-> <<>>, from_email |-> <<>>,
    msg_date |-> Jan01, confidence_score |-> 50],
   [message_id |-> <<"m", "2">>, subject |-> <<>>, from_email |-> <<>>,
    msg_date |-> jsObject, confidence_score |-> 50]}

MailBatches == SeqsUpTo(MailInputs, MaxBatch)

\* email_id of a request body: a stored or unknown identifier, or the empty
\* text (falsy).
EmailIds == MsgIds \cup {<<>>}

\* The input check of the review handler: !decision.email_id ||
\* typeof decision.is_flight_confirmation !== 'boolean'.
\* Mutant: only the verdict is checked.
invalidDecision_verdictOnly(emailId, verdict) ==
  verdict \notin {"true", "false"}

invalidDecision(emailId, verdict) ==
  emailId = <<>> \/ verdict \notin {"true", "false"}

\* Number.parseInt of a query parameter: white space is skipped, then an
\* optional sign and the longest run of decimal digits are read; the result
\* is NaN when no digit is found, as it is for an absent parameter.  (A 0x
\* prefix selects base 16; no input below has one.)
NaN == [nan |-> TRUE, value |-> 0]

RECURSIVE skipSpaces(_)
skipSpaces(text) ==
  IF text # <<>> /\ Head(text) = " " THEN skipSpaces(Tail(text)) ELSE text

RECURSIVE digitsValue(_, _)
digitsValue(text, acc) ==
  IF text = <<>> \/ ~isDigit(Head(text))
    THEN acc
    ELSE digitsValue(Tail(text), acc * 10 + (charCode[Head(text)] - 48))

parseInt(raw) ==
  IF raw = undefinedText THEN NaN
  ELSE LET t == skipSpaces(raw)
           negative == t # <<>> /\ Head(t) = "-"
           u == IF t # <<>> /\ Head(t) \in {"-", "+"} THEN Tail(t) ELSE t
       IN  IF u = <<>> \/ ~isDigit(Head(u))
             THEN NaN
             ELSE [nan |-> FALSE,
                   value |-> IF negative THEN 0 - digitsValue(u, 0)
                                         ELSE digitsValue(u, 0)]

\* Math.min(parseInt(req.query.batch_size) || 20, 100): NaN and 0 are falsy.
batchSize(raw) ==
  LET n == parseInt(raw)
      wanted == IF n.nan \/ n.value = 0 THEN 20 ELSE n.value
  IN  IF wanted < 100 THEN wanted ELSE 100

\* batch_size of a next-batch request: absent, empty, not a number, zero,
\* negative, in range, at the default, at the maximum and above it.
BatchSizeInputs ==
  {undefinedText, <<>>, <<"a", "b", "c">>, <<"0">>, <<"-", "1">>,
   <<"-", "5", "0">>, <<"1">>, <<"2">>, <<"5", "x">>, <<" ", "7">>,
   <<"2", "0">>, <<"2", "1">>, <<"1", "0", "0">>, <<"1", "0", "1">>,
   <<"2", "5", "0">>}

\* q of a search request: absent, empty, a letter in either case, the two
\* LIKE wildcards, a letter followed by a wildcard, an identifier and a text
\* no row holds.
SearchQueries ==
  {undefinedText, <<>>, <<"a">>, <<"B">>, <<"_">>, <<"%">>, <<"a", "_">>,
   <<"m", "1">>, <<"z", "z">>}

\* reviewed of a search request.
ReviewedParams == {"true", "false", "missing"}

\* reviewed === 'true' ? true : reviewed === 'false' ? false : undefined
reviewedFilter(reviewed) ==
  IF reviewed \in {"true", "false"} THEN reviewed ELSE "any"

\* The element of the emails array built from a row (EmailCard).
EmailCard(c) ==
  [id |-> c.message_id, subject |-> c.subject, from_email |-> c.from_email,
   date |-> c.msg_date, confidence_score |-> c.confidence_score]

\* Records the stores that are read are filled from: m1 and m4 agree in
\* score and date, m2 is newer at the same score, m3 is newer at a lower one.
ReadInputs ==
  {[message_id |-> <<"m", "1">>, subject |-> <<"A", "b">>,
    from_email |-> <<"u", "@", "x">>, msg_date |-> Jan01, confidence_score |-> 50],
   [message_id |-> <<"m", "2">>, subject |-> <<"a", "_", "b">>,
    from_email |-> <<"u", "@", "x">>, msg_date |-> Jan02, confidence_score |-> 50],
   [message_id |-> <<"m", "3">>, subject |-> <<"9", "%">>,
    from_email |-> <<"v", "@", "y">>, msg_date |-> Jan02, confidence_score |-> 20],
   [message_id |-> <<"m", "4">>, subject |-> <<>>,
    from_email |-> <<"B", "@", "y">>, msg_date |-> Jan01, confidence_score |-> 50]}

SmallStores ==
  {insertCandidates({}, batch) : batch \in SeqsUpTo(ReadInputs, MaxRows)}

\* Decimal text of a natural number.
RECURSIVE decimal(_)
decimal(n) ==
  IF n < 10 THEN <<ASCII[n + 48 - 31]>>
  ELSE Append(decimal(n \div 10), ASCII[(n % 10) + 48 - 31])

\* A store of n rows that differ in nothing but their identifiers.
bulkRecord(i) ==
  [message_id |-> <<"b">> \o decimal(i), subject |-> <<>>, from_email |-> <<>>,
   msg_date |-> Jan01, confidence_score |-> 50]

\* What insertCandidates leaves in an empty store for bulkRecord(1..n).
bulkStore(n) ==
  {[id |-> i,
    message_id |-> bulkRecord(i).message_id,
    subject |-> bulkRecord(i).subject,
    from_email |-> bulkRecord(i).from_email,
    msg_date |-> bulkRecord(i).msg_date,
    confidence_score |-> bulkRecord(i).confidence_score,
    reviewed |-> 0] : i \in 1..n}

\* One row more than the default batch and one more than the largest.
BulkStores == {bulkStore(20 + 1), bulkStore(100 + 1)}

TieOrders == {"rowid_asc", "rowid_desc"}

\* The store after every candidate of ids, in the order of their rowids, has
\* been rejected by a review in second 0.
rejectAll(cands, ids) ==
  [email_candidates |->
     {IF c.id \in ids THEN [c EXCEPT !.reviewed = 1] ELSE c : c \in cands},
   review_decisions |->
     {[id |-> Cardinality({j \in ids : j <= c.id}),
       email_candidate_id |-> c.id,
       message_id |-> c.message_id,
       is_flight_confirmation |-> 0,
       reviewed_at |-> 0] : c \in {x \in cands : x.id \in ids}},
   decision_seq |-> Cardinality(ids)]

\* The statement of a handler that throws: 0 is none.
FailPoints(n) == IF faults THEN 0..n ELSE {0}

\* What is kept of a request: its kind, its inputs email_id and
\* is_flight_confirmation, the status of its response and the number in the
\* response (remaining, or the row count insertCandidates returns).  For an
\* undo that directly follows an undo, prev_undo is the status of that
\* earlier undo (0 otherwise).
Response(op, status, emailId, verdict, count) ==
  [op |-> op, status |-> status, email_id |-> emailId,
   is_flight_confirmation |-> verdict, count |-> count,
   prev_undo |-> IF op = "undo" /\ last.op = "undo" THEN last.status ELSE 0]

Snapshot == [email_candidates |-> email_candidates,
             review_decisions |-> review_decisions,
             confirmed_flights |-> confirmed_flights]

NoSnapshot == [email_candidates |-> {}, review_decisions |-> {},
               confirmed_flights |-> {}]

\* ----------------------------------------------------------------- actions
NoRequest == [op |-> "none", status |-> 0, email_id |-> <<>>,
              is_flight_confirmation |-> "missing", count |-> 0,
              prev_undo |-> 0]

InitStore ==
  /\ email_candidates = {}
  /\ review_decisions = {}
  /\ confirmed_flights = {}
  /\ decision_seq = 0
  /\ now = 0
  /\ last = NoRequest
  /\ pre = NoSnapshot

\* No read has been answered and no email is being scored.
NoReply == [op |-> "none"]

NoEmail == [message_id |-> <<>>]

\* The App component is not mounted.
NoApp == [emails |-> <<>>, currentIndex |-> 0, loading |-> FALSE,
          error |-> FALSE, requests |-> <<>>, submitted |-> {},
          resubmitted |-> {}]

InitIdle ==
  /\ tie_order = "rowid_asc"
  /\ emailData = NoEmail
  /\ reply = NoReply
  /\ app = NoApp

Init == InitStore /\ InitIdle /\ faults = FALSE

InitFault == InitStore /\ InitIdle /\ faults = TRUE

\* DatabaseManager.insertCandidates, called by the ingestion job.  The loop
\* runs inside db.transaction: a statement that throws (f = 1, or a record
\* the driver cannot bind) rolls every row of the batch back and the
\* exception reaches the caller (kept as status 500); otherwise the call
\* returns candidates.length (kept as status 200).
IngestOf(batch, f) ==
  /\ pre' = NoSnapshot
  /\ IF f = 1 \/ \E i \in 1..Len(batch) : ~bindable(batch[i])
       THEN /\ email_candidates' = email_candidates
            /\ last' = Response("insert", 500, <<>>, "missing", 0)
       ELSE /\ email_candidates' = insertCandidates(email_candidates, batch)
            /\ last' = Response("insert", 200, <<>>, "missing", Len(batch))
  /\ UNCHANGED <<review_decisions, confirmed_flights, decision_seq, now,
                 faults, tie_order, emailData, app>>

Ingest ==
  \E batch \in Batches, f \in FailPoints(1) :
    IngestOf(batch, f) /\ reply' = reply

\* The same call with the records of a mailbox scan; the batch is kept.
IngestMail ==
  \E batch \in MailBatches, f \in FailPoints(1) :
    IngestOf(batch, f) /\ reply' = [op |-> "insert", batch |-> batch]

\* POST /api/emails/review.  The request arrives at a second t no earlier
\* than the last one the store has seen; f is the statement that throws:
\* 1 getCandidateByMessageId, 2 insertReviewDecision, 3 markAsReviewed,
\* 4 insertConfirmedFlight, 5 countUnreviewed.  The body is validated before
\* the candidate is looked up.
ReviewOf(emailId, verdict, t, f, maxId) ==
    LET isFlight == verdict = "true"
        found == getCandidateByMessageId(email_candidates, emailId)
        candidate == CHOOSE c \in found : TRUE
        decs1 == insertReviewDecision(review_decisions, decision_seq,
                                      candidate.id, emailId, isFlight, t)
        cands2 == markAsReviewed(email_candidates, candidate.id)
        flights3 == IF isFlight
                      THEN insertConfirmedFlight(confirmed_flights, emailId)
                      ELSE confirmed_flights
        Reply(status, remaining) ==
          Response("review", status, emailId, verdict, remaining)
    IN
    /\ pre' = Snapshot
    /\ now' = t
    /\ UNCHANGED <<faults, readSide>>
    /\ IF invalidDecision(emailId, verdict)
         THEN /\ f = 0
              /\ last' = Reply(400, 0)
              /\ UNCHANGED <<tables, decision_seq>>
         ELSE IF f = 1
         THEN /\ last' = Reply(500, 0)
              /\ UNCHANGED <<tables, decision_seq>>
         ELSE IF found = {}
         THEN /\ f = 0
              /\ last' = Reply(404, 0)
              /\ UNCHANGED <<tables, decision_seq>>
         ELSE IF f = 2
         THEN /\ last' = Reply(500, 0)
              /\ UNCHANGED <<tables, decision_seq>>
         ELSE
              /\ decision_seq < maxId
              /\ decision_seq' = decision_seq + 1
              /\ review_decisions' = decs1
              /\ IF f = 3
                   THEN /\ last' = Reply(500, 0)
                        /\ UNCHANGED <<email_candidates, confirmed_flights>>
                   ELSE /\ email_candidates' = cands2
                        /\ IF f = 4
                             THEN /\ isFlight
                                  /\ last' = Reply(500, 0)
                                  /\ UNCHANGED confirmed_flights
                             ELSE /\ confirmed_flights' = flights3
                                  /\ IF f = 5
                                       THEN last' = Reply(500, 0)
                                       ELSE last' = Reply(200,
                                              countUnreviewed(cands2))

\* The handler with any body, at any second from now on; the decision log
\* is capped at MaxDecisionId rows handed out.
Review ==
  \E emailId \in EmailIds, verdict \in Verdicts, t \in now..MaxTime,
     f \in FailPoints(5) :
    ReviewOf(emailId, verdict, t, f, MaxDecisionId) /\ app' = app

\* Mutant: the handler without its check of lastDecision; on an empty log
\* lastDecision.id throws and the request is answered 500.
Undo_unchecked ==
  \E f \in FailPoints(3) :
    LET Reply(status, emailId) ==
          Response("undo", status, emailId, "missing", 0)
    IN
    /\ pre' = NoSnapshot
    /\ UNCHANGED <<confirmed_flights, decision_seq, now, faults, readSide,
                   app>>
    /\ IF f = 1 \/ review_decisions = {}
         THEN /\ last' = Reply(500, <<>>)
              /\ UNCHANGED <<email_candidates, review_decisions>>
         ELSE \E lastDecision \in getLastDecision(review_decisions) :
              IF f = 2
                THEN /\ last' = Reply(500, <<>>)
                     /\ UNCHANGED <<email_candidates, review_decisions>>
                ELSE /\ review_decisions' =
                          deleteDecision(review_decisions, lastDecision.id)
                     /\ IF f = 3
                          THEN /\ last' = Reply(500, <<>>)
                               /\ UNCHANGED email_candidates
                          ELSE /\ email_candidates' =
                                    markAsUnreviewed(email_candidates,
                                        lastDecision.email_candidate_id)
                               /\ last' = Reply(200, lastDecision.message_id)

\* POST /api/emails/undo.  f is the statement that throws: 1 getLastDecision,
\* 2 deleteDecision, 3 markAsUnreviewed.
Undo ==
  \E f \in FailPoints(3) :
    LET Reply(status, emailId) ==
          Response("undo", status, emailId, "missing", 0)
    IN
    /\ pre' = NoSnapshot
    /\ UNCHANGED <<confirmed_flights, decision_seq, now, faults, readSide,
                   app>>
    /\ IF f = 1
         THEN /\ last' = Reply(500, <<>>)
              /\ UNCHANGED <<email_candidates, review_decisions>>
         ELSE IF review_decisions = {}
         THEN /\ f = 0
              /\ last' = Reply(404, <<>>)
              /\ UNCHANGED <<email_candidates, review_decisions>>
         ELSE \E lastDecision \in getLastDecision(review_decisions) :
              IF f = 2
                THEN /\ last' = Reply(500, <<>>)
                     /\ UNCHANGED <<email_candidates, review_decisions>>
                ELSE /\ review_decisions' =
                          deleteDecision(review_decisions, lastDecision.id)
                     /\ IF f = 3
                          THEN /\ last' = Reply(500, <<>>)
                               /\ UNCHANGED email_candidates
                          ELSE /\ email_candidates' =
                                    markAsUnreviewed(email_candidates,
                                        lastDecision.email_candidate_id)
                               /\ last' = Reply(200, lastDecision.message_id)

Next == Ingest \/ Review \/ Undo

\* Every statement of the store succeeds.
Spec == Init /\ [][Next]_vars

\* A statement of the store may throw (disk full, database locked).
SpecFault == InitFault /\ [][Next]_vars

NextIngest == IngestMail

\* Ingestion of mailbox records, some of them malformed, into a store that
\* starts empty.
SpecIngest == Init /\ [][NextIngest]_vars

\* ------------------------------------------------------------ read handlers
\* A store that is only read: some of its rows have been reviewed.
InitRead(stores) ==
  \E cands \in stores :
    \E ids \in IF Cardinality(cands) <= MaxRows
                 THEN SUBSET {c.id : c \in cands} ELSE {{}} :
      LET store == rejectAll(cands, ids)
      IN  /\ email_candidates = store.email_candidates
          /\ review_decisions = store.review_decisions
          /\ decision_seq = store.decision_seq
          /\ confirmed_flights = {}
          /\ now = 0
          /\ faults = FALSE
          /\ last = NoRequest
          /\ pre = NoSnapshot
          /\ tie_order \in TieOrders
          /\ emailData = NoEmail
          /\ reply = NoReply
          /\ app = NoApp

\* GET /api/emails/next-batch.  f is the statement that throws:
\* 1 getUnreviewedCandidates, 2 countUnreviewed.  An empty result is answered
\* with a message and without total_remaining.  again tells that the reply
\* before this one answered the same batch_size.
NextBatchOf(raw, f) ==
  \E candidates \in {getUnreviewedCandidates(email_candidates, batchSize(raw),
                                              tie_order)} :
    LET again == reply.op = "next-batch" /\ reply.batch_size = raw
        Reply(status, emails, hasTotal, total) ==
          [op |-> "next-batch", batch_size |-> raw, status |-> status,
           emails |-> emails, has_total |-> hasTotal,
           total_remaining |-> total, again |-> again]
    IN
    /\ UNCHANGED <<tables, decision_seq, now, faults, last, pre, tie_order,
                   emailData>>
    /\ IF f = 1
         THEN reply' = Reply(500, <<>>, FALSE, 0)
         ELSE IF candidates = <<>>
         THEN f = 0 /\ reply' = Reply(200, <<>>, FALSE, 0)
         ELSE IF f = 2
         THEN reply' = Reply(500, <<>>, FALSE, 0)
         ELSE reply' = Reply(200,
                             [i \in 1..Len(candidates) |->
                                EmailCard(candidates[i])],
                             TRUE, countUnreviewed(email_candidates))

NextBatch ==
  \E raw \in BatchSizeInputs, f \in FailPoints(2) :
    NextBatchOf(raw, f) /\ app' = app

\* GET /api/emails/search.  An absent or empty q is answered 400 before the
\* store is read; f = 1 is searchCandidates throwing.
Search ==
  \E q \in SearchQueries, reviewed \in ReviewedParams, f \in FailPoints(1) :
    LET Reply(status, results) ==
          [op |-> "search", q |-> q, reviewed |-> reviewed, status |-> status,
           results |-> results, count |-> Len(results)]
    IN
    /\ UNCHANGED <<tables, decision_seq, now, faults, last, pre, tie_order,
                   emailData, app>>
    /\ IF q = undefinedText \/ q = <<>>
         THEN f = 0 /\ reply' = Reply(400, <<>>)
         ELSE IF f = 1
         THEN reply' = Reply(500, <<>>)
         ELSE reply' = Reply(200, searchCandidates(email_candidates, q,
                                    reviewedFilter(reviewed), tie_order))

InitFetch == InitRead(SmallStores \cup BulkStores)

NextFetch == NextBatch

\* next-batch requests against a store that does not change.
SpecFetch == InitFetch /\ [][NextFetch]_vars

\* Messages of a mailbox: every subject, sender and pair of bodies below, a
\* header or a body left out where the choice is undefined.
SubjectInputs ==
  << <<>>,
    <<"H", "i">>,
    <<"Y", "o", "u", "r", " ", "R", "e", "c", "e", "i", "p", "t">>,
    <<"B", "O", "A", "R", "D", "I", "N", "G", " ", "p", "a", "s", "s">>,
    <<"F", "l", "i", "g", "h", "t", " ", "C", "o", "n", "f", "i", "r", "m", "a", "t", "i", "o", "n">>>>

SenderInputs ==
  << <<>>,
    <<"b", "o", "b", "@", "e", "x", "a", "m", "p", "l", "e", ".", "o", "r", "g">>,
    <<"N", "o", "-", "R", "e", "p", "l", "y", "@", "U", "n", "i", "t", "e", "d", ".", "c", "o", "m">>,
    <<"d", "e", "a", "l", "s", "@", "k", "a", "y", "a", "k", ".", "c", "o", "m">>>>

HtmlInputs ==
  <<<<"<", "p", ">", "H", "i", "<", "/", "p", ">">>,
    <<"<", "d", "i", "v", " ", "i", "t", "e", "m", "t", "y", "p", "e", "=", "h", "t", "t", "p", ":", "/", "/", "s", "c", "h", "e", "m", "a", ".", "o", "r", "g", "/", "F", "l", "i", "g", "h", "t", "R", "e", "s", "e", "r", "v", "a", "t", "i", "o", "n", ">">>>>

PlainInputs ==
  <<<<"s", "e", "e", " ", "y", "o", "u">>,
    <<"J", "F", "K">>,
    <<"A", "B", "C", "1", "2", "3">>,
    <<"A", "A", "1", "2", "3", "4">>,
    <<"U", "A", "1", "2", " ", "S", "F", "O">>,
    <<"C", "o", "d", "e", " ", "X", "K", "7", "P", "Q", "2", " ", "o", "n", " ", "U", "A", "1", "2", " ", "a", "t", " ", "S", "F", "O">>>>

MessageIdInput == <<"<", "m", "1", "@", "m", "a", "i", "l", ">">>

range(list) == {list[i] : i \in 1..Len(list)}

optional(present, item) == IF present THEN <<item>> ELSE <<>>

headersOf(subject, sender) ==
  optional(subject # undefinedText,
           [name |-> SubjectHeader, value |-> subject])
    \o optional(sender # undefinedText,
                [name |-> FromHeader, value |-> sender])
    \o <<[name |-> DateHeader, value |-> Jan01],
         [name |-> MessageIdHeader, value |-> MessageIdInput]>>

leaf(mimeType, data) ==
  [mimeType |-> mimeType, data |-> data, parts |-> <<>>]

\* A multipart body with its html part and its plain part, either left out.
multipart(html, plain) ==
  [mimeType |-> MultipartAlternative, data |-> undefinedText,
   parts |-> optional(plain # undefinedText, leaf(TextPlain, plain))
               \o optional(html # undefinedText, leaf(TextHtml, html))]

Payloads ==
  {leaf(TextHtml, html) : html \in range(HtmlInputs)}
    \cup {leaf(TextPlain, plain) : plain \in range(PlainInputs)}
    \cup {leaf(TextPlain, undefinedText)}
    \cup {multipart(html, plain) :
            html \in range(HtmlInputs) \cup {undefinedText, <<>>},
            plain \in range(PlainInputs) \cup {undefinedText}}
    \cup {[mimeType |-> MultipartMixed, data |-> undefinedText,
           parts |-> <<multipart(html, PlainInputs[1]),
                       leaf(TextPlain, PlainInputs[2])>>] :
            html \in range(HtmlInputs)}

Messages ==
  {[payload |-> [headers |-> headersOf(subject, sender),
                 mimeType |-> payload.mimeType,
                 data |-> payload.data,
                 parts |-> payload.parts]] :
     subject \in range(SubjectInputs) \cup {undefinedText},
     sender \in range(SenderInputs) \cup {undefinedText},
     payload \in Payloads}

\* What the scorer is handed: the records extracted from the messages, and,
\* as the EmailData type lets plain_text be left out, those without one.
EmailRecords ==
  LET extracted == {extractEmailData(message) : message \in Messages}
  IN  extracted
        \cup {[email EXCEPT !.plain_text = undefinedText] :
                email \in {e \in extracted : e.plain_text = <<>>}}


\* calculateConfidenceScore(emailData).
Score ==
  /\ UNCHANGED <<tables, decision_seq, now, faults, last, pre, tie_order,
                 emailData, app>>
  /\ \E result \in {calculateConfidenceScore(emailData)} :
       reply' = [op |-> "score", threw |-> result.threw,
                 score |-> result.score, reasons |-> result.reasons]

\* isCandidateForReview(emailData).
Classify ==
  /\ UNCHANGED <<tables, decision_seq, now, faults, last, pre, tie_order,
                 emailData, app>>
  /\ \E result \in {isCandidateForReview(emailData)} :
       reply' = [op |-> "candidate", threw |-> result.threw,
                 isCandidate |-> result.isCandidate,
                 score |-> result.score, reasons |-> result.reasons]

InitScore ==
  /\ InitStore
  /\ faults = FALSE
  /\ tie_order = "rowid_asc"
  /\ reply = NoReply
  /\ app = NoApp
  /\ emailData \in EmailRecords

NextScore == Score \/ Classify

\* The scorer applied to one email record.
SpecScore == InitScore /\ [][NextScore]_vars


\* GET /api/stats.  f = 1 is getStats throwing.
Stats ==
  \E f \in FailPoints(1) :
    /\ UNCHANGED <<tables, decision_seq, now, faults, last, pre, tie_order,
                   emailData, app>>
    /\ IF f = 1
         THEN reply' = [op |-> "stats", status |-> 500]
         ELSE reply' = [op |-> "stats", status |-> 200,
                        stats |-> getStats(email_candidates,
                                           review_decisions)]

\* A store of up to MaxTotal rows of which the oldest have been reviewed.
InitStats ==
  \E total \in 0..MaxTotal :
    \E reviewed \in 0..total :
      LET store == rejectAll(bulkStore(total), 1..reviewed)
      IN  /\ email_candidates = store.email_candidates
          /\ review_decisions = store.review_decisions
          /\ decision_seq = store.decision_seq
          /\ confirmed_flights = {}
          /\ now = 0
          /\ faults = FALSE
          /\ last = NoRequest
          /\ pre = NoSnapshot
          /\ InitIdle

NextStats == Stats

\* stats requests against a store that does not change.
SpecStats == InitStats /\ [][NextStats]_vars

InitSearch == InitRead(SmallStores)

\* The store whose only row is m1, not yet reviewed: m2 is an identifier that
\* is not stored.
InitReject ==
  /\ email_candidates =
       insertCandidates({}, <<CHOOSE r \in ReadInputs :
                                r.message_id = <<"m", "1">> >>)
  /\ review_decisions = {}
  /\ confirmed_flights = {}
  /\ decision_seq = 0
  /\ now = 0
  /\ faults = FALSE
  /\ last = NoRequest
  /\ pre = NoSnapshot
  /\ InitIdle

NextReject == Review \/ Undo \/ Search

\* Reviews, undos and searches, many of them rejected, against a store that
\* is not ingested into.
SpecReject == InitReject /\ [][NextReject]_vars

NextSearch == Search

\* search requests against a store that does not change.
SpecSearch == InitSearch /\ [][NextSearch]_vars

\* ----------------------------------------------------- frontend/src/App.tsx
\* The App component against the backend above.  A request is sent when its
\* handler calls the API client, served when the backend's handler runs, and
\* resolved when the awaiting continuation runs; requests travel on separate
\* connections, so any pending one may be served or resolved next.  A
\* continuation of handleDecision reads currentIndex and emails of the
\* render it was created in: index and length of the request.  The stats
\* panel (fetchStatsData), the show-content toggle and handleUndo are left
\* out: the reviewer of this specification decides and checks for more.
ReviewRequest(card, verdict) ==
  [kind |-> "review", email_id |-> card.id, verdict |-> verdict,
   index |-> app.currentIndex, length |-> Len(app.emails),
   served |-> FALSE, status |-> 0, emails |-> <<>>]

FetchRequest ==
  [kind |-> "fetch", email_id |-> <<>>, verdict |-> "none",
   index |-> 0, length |-> 0, served |-> FALSE, status |-> 0, emails |-> <<>>]

without(requests, i) ==
  SubSeq(requests, 1, i - 1) \o SubSeq(requests, i + 1, Len(requests))

\* emails[currentIndex] is defined.
hasCurrentEmail(a) == a.currentIndex < Len(a.emails)

currentEmail(a) == a.emails[a.currentIndex + 1]

\* fetchBatch up to its await: setLoading(true) and getNextBatch(20) sent.
fetchBatch(a) ==
  [a EXCEPT !.loading = TRUE, !.requests = Append(@, FetchRequest)]

\* The state after the mount effect has run.
Mounted == fetchBatch(NoApp)

\* review requests sent and not yet served.
unserved(a) ==
  Cardinality({i \in DOMAIN a.requests :
                 a.requests[i].kind = "review" /\ ~a.requests[i].served})

\* handleDecision up to its await, from a key or a button of Controls:
\* nothing happens without a current email; otherwise submitReview is sent
\* for it.
KeyDecision ==
  \E verdict \in {"true", "false"} :
    /\ hasCurrentEmail(app)
    /\ Len(app.requests) < MaxInFlight
    /\ decision_seq + unserved(app) < MaxSubmits
    /\ LET card == currentEmail(app)
       IN  app' = [app EXCEPT
                     !.requests = Append(@, ReviewRequest(card, verdict)),
                     !.submitted = @ \cup {card.id},
                     !.resubmitted = IF card.id \in app.submitted
                                       THEN @ \cup {card.id} ELSE @]
    /\ UNCHANGED <<tables, decision_seq, now, faults, last, pre, readSide>>

\* The backend handles a submitReview.
ServeReview ==
  \E i \in DOMAIN app.requests, t \in now..MaxTime, f \in FailPoints(5) :
    LET r == app.requests[i]
    IN  /\ r.kind = "review"
        /\ ~r.served
        /\ ReviewOf(r.email_id, r.verdict, t, f, MaxSubmits)
        /\ app' = [app EXCEPT
                     !.requests[i] = [r EXCEPT !.served = TRUE,
                                               !.status = last'.status]]

\* handleDecision after its await: on success fetchBatch when the captured
\* index is within three of the captured length, else the captured index
\* plus one; fetchApi throws on a status that is not ok.
ResolveReview ==
  \E i \in DOMAIN app.requests :
    LET r == app.requests[i]
        rest == [app EXCEPT !.requests = without(@, i)]
    IN  /\ r.kind = "review"
        /\ r.served
        /\ app' = IF r.status # 200
                    THEN [rest EXCEPT !.error = TRUE]
                    ELSE IF r.index >= r.length - 3
                    THEN fetchBatch(rest)
                    ELSE [rest EXCEPT !.currentIndex = r.index + 1]
        /\ UNCHANGED <<tables, decision_seq, now, faults, last, pre, readSide>>

\* The backend handles a getNextBatch(20).
ServeFetch ==
  \E i \in DOMAIN app.requests, f \in FailPoints(2) :
    LET r == app.requests[i]
    IN  /\ r.kind = "fetch"
        /\ ~r.served
        /\ NextBatchOf(<<"2", "0">>, f)
        /\ app' = [app EXCEPT
                     !.requests[i] = [r EXCEPT !.served = TRUE,
                                               !.status = reply'.status,
                                               !.emails = reply'.emails]]

\* fetchBatch after its await.
ResolveFetch ==
  \E i \in DOMAIN app.requests :
    LET r == app.requests[i]
        rest == [app EXCEPT !.requests = without(@, i), !.loading = FALSE]
    IN  /\ r.kind = "fetch"
        /\ r.served
        /\ app' = IF r.status # 200
                    THEN [rest EXCEPT !.error = TRUE]
                    ELSE [rest EXCEPT !.emails = r.emails,
                                      !.currentIndex = 0,
                                      !.error = FALSE]
        /\ UNCHANGED <<tables, decision_seq, now, faults, last, pre, readSide>>

\* The button of the empty state, rendered when there is no current email
\* and the loading view is not shown.
CheckForMore ==
  /\ ~hasCurrentEmail(app)
  /\ ~(app.loading /\ app.emails = <<>>)
  /\ Len(app.requests) < MaxInFlight
  /\ app' = fetchBatch(app)
  /\ UNCHANGED <<tables, decision_seq, now, faults, last, pre, readSide>>

InitApp ==
  /\ email_candidates = bulkStore(MaxCards)
  /\ review_decisions = {}
  /\ confirmed_flights = {}
  /\ decision_seq = 0
  /\ now = 0
  /\ faults = FALSE
  /\ last = NoRequest
  /\ pre = NoSnapshot
  /\ tie_order \in TieOrders
  /\ emailData = NoEmail
  /\ reply = NoReply
  /\ app = Mounted

NextApp ==
  \/ KeyDecision
  \/ ServeReview
  \/ ResolveReview
  \/ ServeFetch
  \/ ResolveFetch
  \/ CheckForMore

\* One reviewer in one browser tab working through a store that nothing is
\* ingested into.
SpecApp == InitApp /\ [][NextApp]_vars

\* ------------------------------------------------------------------ claims
DecisionsFor(decs, messageId) == {d \in decs : d.message_id = messageId}

\* The decision submitted last: AUTOINCREMENT ids grow with every insert.
Newest(decs) == CHOOSE d \in decs : \A e \in decs : e.id <= d.id

CandidateOf(cands, messageId) == CHOOSE c \in cands : c.message_id = messageId

Counts(cands, decs) ==
  <<countUnreviewed(cands), countReviewed(cands),
    countConfirmedFlights(decs), countRejected(decs)>>

\* C1: a ConfirmedEntry exists for a candidate only while the latest decision
\* still in the log for it is positive: once a successful undo has removed a
\* positive decision and no decision for that message is left, no
\* ConfirmedEntry for the message identifier remains.
C1_UndoRemovesConfirmedEntry ==
  [][(/\ last'.op = "undo" /\ last'.status = 200
      /\ \E d \in review_decisions \ review_decisions' :
           d.is_flight_confirmation = 1
      /\ DecisionsFor(review_decisions', last'.email_id) = {})
       => last'.email_id \notin confirmed_flights']_vars

C3_OneDecisionPerCandidate ==
  \A c \in email_candidates :
    Cardinality({d \in review_decisions : d.email_candidate_id = c.id}) <= 1

\* C4: a review request answered with an error leaves the three tables as
\* they were before the request.
C4_FailedReviewWritesNothing ==
  (last.op = "review" /\ last.status = 500) => Snapshot = pre

\* C5: a successful review of an unreviewed candidate directly followed by a
\* successful undo leaves that candidate unreviewed, the decision log as it
\* was before the review, and the four counts at their values before it.
C5_UndoRoundTrip ==
  [][(/\ last.op = "review" /\ last.status = 200
      /\ CandidateOf(pre.email_candidates, last.email_id).reviewed = 0
      /\ last'.op = "undo" /\ last'.status = 200)
       => /\ CandidateOf(email_candidates', last.email_id).reviewed = 0
          /\ review_decisions' = pre.review_decisions
          /\ Counts(email_candidates', review_decisions') =
               Counts(pre.email_candidates, pre.review_decisions)]_vars

\* C6: when every logged decision is on a different candidate, a successful
\* undo returns the message identifier of the decision submitted last and
\* deletes that row.
C6_UndoReversesNewest ==
  [][(/\ last'.op = "undo" /\ last'.status = 200
      /\ \A d, e \in review_decisions :
           d.email_candidate_id = e.email_candidate_id => d = e)
       => /\ last'.email_id = Newest(review_decisions).message_id
          /\ review_decisions' =
               review_decisions \ {Newest(review_decisions)}]_vars

\* C7: an undo answered with an error leaves the three tables as they were,
\* so no decision row is gone while its candidate is still flagged reviewed.
C7_FailedUndoWritesNothing ==
  [][(last'.op = "undo" /\ last'.status = 500) => tables' = tables]_vars

\* C8: countTotalCandidates = countReviewed + countUnreviewed.
C8_CountInvariant ==
  countTotalCandidates(email_candidates) =
    countReviewed(email_candidates) + countUnreviewed(email_candidates)

\* Reviewed and unreviewed candidates are stored side by side.
C8_BothFlagsStored ==
  /\ countReviewed(email_candidates) >= 1
  /\ countUnreviewed(email_candidates) >= 1

UniqueMessageIds(cands) ==
  \A r1, r2 \in cands : r1.message_id = r2.message_id => r1 = r2

\* C9: the store holds one row per message identifier, and for every batch,
\* ingesting it and then ingesting it again leaves one row per message
\* identifier, the second call changing no count.
C9_IdempotentIngestion ==
  /\ UniqueMessageIds(email_candidates)
  /\ \A batch \in Batches :
       LET once == insertCandidates(email_candidates, batch)
           twice == insertCandidates(once, batch)
       IN  /\ UniqueMessageIds(once)
           /\ UniqueMessageIds(twice)
           /\ countTotalCandidates(twice) = countTotalCandidates(once)
           /\ countReviewed(twice) = countReviewed(once)
           /\ countUnreviewed(twice) = countUnreviewed(once)

\* A non-empty batch was ingested and every stored row is reviewed: a row
\* that ingestion inserts is unreviewed, so every row of the batch repeated
\* an identifier that was already stored.
C9_DuplicateIngested ==
  /\ last.op = "insert" /\ last.status = 200 /\ last.count >= 1
  /\ email_candidates # {}
  /\ countUnreviewed(email_candidates) = 0

\* C10: a successful review of an unreviewed candidate flags it reviewed and
\* lowers the unreviewed count by 1; verdict true adds 1 to the confirmed
\* count, leaves the rejected count and leaves a ConfirmedEntry for the
\* message; verdict false adds 1 to the rejected count, leaves the confirmed
\* count and creates no ConfirmedEntry.
C10_ReviewEffect ==
  [][(/\ last'.op = "review" /\ last'.status = 200
      /\ CandidateOf(email_candidates, last'.email_id).reviewed = 0)
       => /\ CandidateOf(email_candidates', last'.email_id).reviewed = 1
          /\ countUnreviewed(email_candidates') =
               countUnreviewed(email_candidates) - 1
          /\ last'.is_flight_confirmation = "true"
             => /\ countConfirmedFlights(review_decisions') =
                     countConfirmedFlights(review_decisions) + 1
                /\ countRejected(review_decisions') =
                     countRejected(review_decisions)
                /\ last'.email_id \in confirmed_flights'
          /\ last'.is_flight_confirmation = "false"
             => /\ countRejected(review_decisions') =
                     countRejected(review_decisions) + 1
                /\ countConfirmedFlights(review_decisions') =
                     countConfirmedFlights(review_decisions)
                /\ confirmed_flights' = confirmed_flights]_vars

\* An unreviewed candidate has just been confirmed as a flight.
C10_ConfirmedUnreviewed ==
  /\ last.op = "review" /\ last.status = 200
  /\ last.is_flight_confirmation = "true"
  /\ CandidateOf(pre.email_candidates, last.email_id).reviewed = 0

\* C11: submitDecision looks the candidate up before it validates the verdict:
\* a request whose email_id matches no stored candidate is answered NotFound
\* (404) whatever the verdict field holds, and InvalidInput (400) is answered
\* only when the candidate exists and the verdict is not a boolean.
C11_LookupBeforeVerdict ==
  [][last'.op = "review"
       => /\ getCandidateByMessageId(email_candidates, last'.email_id) = {}
               => last'.status = 404
          /\ last'.status = 400
               => /\ getCandidateByMessageId(email_candidates,
                                             last'.email_id) # {}
                  /\ last'.is_flight_confirmation \notin {"true", "false"}]_vars

\* C11 as the handler has it: the body is validated first.  400 is answered
\* exactly when email_id is empty or the verdict is not a boolean, whether or
\* not a candidate with that identifier is stored, and nothing is written;
\* 404 is answered only for a well-formed body whose email_id matches no
\* candidate, and always for such a body when no statement throws.
C11_VerdictBeforeLookup ==
  [][last'.op = "review"
       => LET malformed == \/ last'.email_id = <<>>
                           \/ last'.is_flight_confirmation
                                \notin {"true", "false"}
              unknown == getCandidateByMessageId(email_candidates,
                                                 last'.email_id) = {}
          IN  /\ last'.status = 400 <=> malformed
              /\ last'.status = 400 => tables' = tables
              /\ last'.status = 404 => (~malformed /\ unknown)
              /\ (~malformed /\ unknown /\ ~faults) => last'.status = 404
              /\ last'.status = 404 => tables' = tables]_vars

\* A non-boolean verdict for an identifier that is not stored got 400.
C11_UnknownIdInvalidVerdict ==
  /\ last.op = "review"
  /\ last.status = 400
  /\ last.email_id \in MsgIds
  /\ getCandidateByMessageId(email_candidates, last.email_id) = {}

\* C15: every stored candidate row has a confidence score of at least 30: no
\* operation that creates candidate rows accepts a record whose isCandidate
\* is false.
C15_OnlyCandidatesStored ==
  \A c \in email_candidates : c.confidence_score >= 30

C13_BatchSizeClamped ==
  reply.op = "next-batch"
    => /\ reply.status = 200
       /\ Len(reply.emails) <= 100
       /\ reply.batch_size = undefinedText => Len(reply.emails) <= 20

\* C14: ingestion is skip-and-continue: when a record of a batch cannot be
\* stored, insertCandidates still succeeds, every well-formed record of the
\* batch is stored, and the number it returns tells how many records were
\* skipped (the batch length less the malformed records).
C14_SkipAndContinue ==
  [][reply'.op = "insert"
       => LET batch == reply'.batch
              Malformed(c) == c.message_id = jsNull \/ c.msg_date = jsObject
              skipped == Cardinality({i \in 1..Len(batch) :
                                        Malformed(batch[i])})
          IN  /\ last'.status = 200
              /\ \A i \in 1..Len(batch) :
                    ~Malformed(batch[i])
                      => \E r \in email_candidates' :
                           r.message_id = batch[i].message_id
              /\ last'.count = Len(batch) - skipped]_vars

\* C16: searchCandidates returns exactly the candidates for which the text
\* occurs as a literal, case-insensitive substring of the subject, the sender
\* or the message identifier and whose reviewed flag equals the filter when
\* one is given, newest message first, and no more than 100 of them.
C16_LiteralSubstringSearch ==
  (reply.op = "search" /\ reply.status = 200)
    => LET results == reply.results
           n == Len(results)
           Has(text) == includes(toLowerCase(text), toLowerCase(reply.q))
           wanted == {c \in email_candidates :
                        /\ Has(c.subject) \/ Has(c.from_email)
                             \/ Has(c.message_id)
                        /\ reply.reviewed = "true" => c.reviewed = 1
                        /\ reply.reviewed = "false" => c.reviewed = 0}
       IN  /\ n <= 100
           /\ Cardinality(wanted) <= 100 => {results[i] : i \in 1..n} = wanted
           /\ n = Cardinality({results[i] : i \in 1..n})
           /\ \A i \in 1..(n - 1) :
                 ~textLess(results[i].msg_date, results[i + 1].msg_date)

\* C17: the review rate reported by getStats is 0 when the store is empty and
\* otherwise the integer nearest to reviewed * 100 / total with halves rounded
\* up; it lies in 0..100.
C17_ReviewRateHalfUp ==
  (reply.op = "stats" /\ reply.status = 200)
    => LET total == Cardinality(email_candidates)
           reviewed == Cardinality({c \in email_candidates : c.reviewed = 1})
       IN  /\ reply.stats.review_rate \in 0..100
           /\ reply.stats.review_rate =
                IF total = 0 THEN 0
                ELSE (200 * reviewed + total) \div (2 * total)

\* C18: calculateConfidenceScore returns a result, and never fails, for every
\* email record the mailbox can supply; an email with no signal, and so one
\* with empty subject and sender and no bodies, gets score 0 and no reasons.
C18_ScorerTotal ==
  reply.op = "score"
    => /\ ~reply.threw
       /\ LET text == IF emailData.plain_text = undefinedText
                        THEN <<>> ELSE emailData.plain_text
              signal == \/ hasFlightReservationSchema(emailData.html)
                        \/ isKnownSender(emailData.from_email)
                        \/ hasConfirmationKeywords(emailData.subject)
                        \/ hasFlightKeywords(emailData.subject)
                        \/ Len(detectFlightMarkers(text)) >= 2
              empty == /\ emailData.html = <<>>
                       /\ emailData.subject = <<>>
                       /\ emailData.from_email = <<>>
                       /\ text = <<>>
          IN  /\ empty => ~signal
              /\ ~signal => reply.score = 0 /\ reply.reasons = <<>>

C18_EmptyEmailScoredZero ==
  /\ reply.op = "score"
  /\ ~reply.threw
  /\ emailData.html = <<>>
  /\ emailData.plain_text = undefinedText
  /\ emailData.subject = <<>>
  /\ emailData.from_email = <<>>
  /\ reply.score = 0
  /\ reply.reasons = <<>>

\* C19: the score is 50a + 20b + 15c + 10d + 10e, where a..e are 1 when the
\* schema rule, the sender rule, the confirmation keyword rule, the flight
\* keyword rule and the markers rule fire and 0 otherwise, and the reasons
\* are one per fired rule in that order.
C19_ScoreIsSumOfWeights ==
  reply.op = "score"
    => LET text == IF emailData.plain_text = undefinedText
                     THEN <<>> ELSE emailData.plain_text
           markers == detectFlightMarkers(text)
           a == hasFlightReservationSchema(emailData.html)
           b == isKnownSender(emailData.from_email)
           c == hasConfirmationKeywords(emailData.subject)
           d == hasFlightKeywords(emailData.subject)
           e == Len(markers) >= 2
           w(fires, weight) == IF fires THEN weight ELSE 0
           r(fires, reason) == IF fires THEN <<reason>> ELSE <<>>
       IN  /\ reply.score
                = w(a, 50) + w(b, 20) + w(c, 15) + w(d, 10) + w(e, 10)
           /\ reply.reasons
                = r(a, SchemaReason) \o r(b, SenderReason)
                    \o r(c, ConfirmationReason) \o r(d, FlightReason)
                    \o r(e, MarkersPrefix \o join(markers, CommaSpace))

C19_AllRulesFired ==
  /\ reply.op = "score"
  /\ reply.score = 105
  /\ Len(reply.reasons) = 5

\* C20: isCandidateForReview accepts exactly the emails whose score is at
\* least 30, and returns the score and the reasons of
\* calculateConfidenceScore for the same email.
C20_ThresholdAtThirty ==
  reply.op = "candidate"
    => /\ reply.isCandidate <=> reply.score >= 30
       /\ reply.score <= 29 => ~reply.isCandidate
       /\ reply.score = calculateConfidenceScore(emailData).score
       /\ reply.reasons = calculateConfidenceScore(emailData).reasons

C20_ThirtyAccepted ==
  /\ reply.op = "candidate"
  /\ reply.score = 30
  /\ reply.isCandidate

\* String.prototype.toUpperCase on ASCII text.
toUpperCase(text) ==
  [i \in 1..Len(text) |->
     IF charCode[text[i]] \in 97..122
       THEN ASCII[charCode[text[i]] - 32 - 31] ELSE text[i]]

\* A text as written, in lower case and in upper case; undefined stays.
Cases(text) ==
  IF text = undefinedText THEN {text}
  ELSE {text, toLowerCase(text), toUpperCase(text)}

\* C21 as claimed: an email and any email that differs from it only in the
\* letter case of its subject, sender address and body text get the same
\* score and the same reasons.
C21_CaseInsensitiveScoring ==
  reply.op = "score"
    => \A subject \in Cases(emailData.subject),
          sender \in Cases(emailData.from_email),
          html \in Cases(emailData.html),
          plain \in Cases(emailData.plain_text) :
         LET other == calculateConfidenceScore(
                        [emailData EXCEPT !.subject = subject,
                                          !.from_email = sender,
                                          !.html = html,
                                          !.plain_text = plain])
         IN  other.score = reply.score /\ other.reasons = reply.reasons

\* C21 as amended: an email and any email that differs from it only in the
\* letter case of its subject and sender address get the same score and the
\* same reasons.
C21_CaseInsensitiveSubjectAndSender ==
  reply.op = "score"
    => \A subject \in Cases(emailData.subject),
          sender \in Cases(emailData.from_email) :
         LET other == calculateConfidenceScore(
                        [emailData EXCEPT !.subject = subject,
                                          !.from_email = sender])
         IN  other.score = reply.score /\ other.reasons = reply.reasons

\* An email whose sender and subject match only when case is ignored.
C21_MixedCaseMatched ==
  /\ reply.op = "score"
  /\ ~someIncluded(emailData.from_email, KNOWN_AIRLINE_SENDERS)
  /\ isKnownSender(emailData.from_email)
  /\ ~someIncluded(emailData.subject, CONFIRMATION_KEYWORDS)
  /\ hasConfirmationKeywords(emailData.subject)
  /\ reply.score >= 35

\* The rules that match an email, and their weights.
Matching(email) ==
  LET text == IF email.plain_text = undefinedText
                THEN <<>> ELSE email.plain_text
  IN  {rule \in {"schema", "sender", "confirmation", "flight", "markers"} :
         \/ rule = "schema" /\ hasFlightReservationSchema(email.html)
         \/ rule = "sender" /\ isKnownSender(email.from_email)
         \/ rule = "confirmation" /\ hasConfirmationKeywords(email.subject)
         \/ rule = "flight" /\ hasFlightKeywords(email.subject)
         \/ rule = "markers" /\ Len(detectFlightMarkers(text)) >= 2}

Weight(rule) ==
  [schema |-> 50, sender |-> 20, confirmation |-> 15, flight |-> 10,
   markers |-> 10][rule]

\* The emails that differ from email in one of subject, sender, html body
\* and plain-text body.
Changed(email) ==
  {[email EXCEPT !.subject = subject] : subject \in range(SubjectInputs)}
    \cup {[email EXCEPT !.from_email = sender] :
            sender \in range(SenderInputs)}
    \cup {[email EXCEPT !.html = html] : html \in range(HtmlInputs) \cup {<<>>}}
    \cup {[email EXCEPT !.plain_text = plain] :
            plain \in range(PlainInputs) \cup {<<>>}}

\* C22: when an email is changed so that one more rule matches and every
\* rule that matched still matches, the score does not decrease: it grows by
\* the weight of that rule.
C22_ScoreMonotone ==
  reply.op = "score"
    => \A other \in Changed(emailData) :
         \A rule \in Matching(other) \ Matching(emailData) :
           Matching(other) = Matching(emailData) \cup {rule}
             => LET score == calculateConfidenceScore(other).score
                IN  /\ score >= reply.score
                    /\ score = reply.score + Weight(rule)

\* An email matching the confirmation keyword rule whose subject can be
\* changed so that the flight keyword rule matches as well.
C22_OneMoreRule ==
  /\ reply.op = "score"
  /\ "confirmation" \in Matching(emailData)
  /\ \E other \in Changed(emailData) :
       /\ "flight" \notin Matching(emailData)
       /\ Matching(other) = Matching(emailData) \cup {"flight"}

\* C23: insertCandidates leaves every stored row as it is, whatever batch it
\* is called with and whether or not the row has been reviewed, and an
\* ingestion leaves every decision and every ConfirmedEntry as it is.
C23_ReingestionTouchesNoRow ==
  [][last'.op = "insert"
       => /\ email_candidates \subseteq email_candidates'
          /\ review_decisions' = review_decisions
          /\ confirmed_flights' = confirmed_flights]_vars

\* A batch of two rows was ingested into a store whose only row is "m1",
\* stored with the lower score, reviewed and confirmed: both rows of the
\* batch repeated its identifier.
C23_ReviewedRowReingested ==
  /\ last.op = "insert" /\ last.status = 200 /\ last.count = 2
  /\ \E c \in email_candidates :
       /\ email_candidates = {c}
       /\ c.message_id = <<"m", "1">>
       /\ c.confidence_score = 20 /\ c.reviewed = 1
  /\ <<"m", "1">> \in confirmed_flights
  /\ review_decisions # {}

\* C24: a review answered 404 or 400, an undo on an empty decision log
\* (answered 404) and a search answered 400 for a missing or empty query
\* each leave the three tables as they were.
C24_RejectedRequestsWriteNothing ==
  [][/\ (last'.op = "review" /\ last'.status \in {400, 404})
          => tables' = tables
     /\ (last'.op = "undo" /\ last'.status = 404) => tables' = tables
     /\ (last' # last /\ last'.op = "undo" /\ review_decisions = {})
          => last'.status = 404
     /\ (reply' # reply /\ reply'.op = "search"
           /\ reply'.q \in {undefinedText, <<>>})
          => (reply'.status = 400 /\ tables' = tables)]_vars

\* With a reviewed candidate in the store, the last review was answered 404,
\* the last search 400.
C24_RejectedOnNonEmptyStore ==
  /\ last.op = "review" /\ last.status = 404
  /\ reply.op = "search" /\ reply.status = 400
  /\ review_decisions # {}
  /\ countReviewed(email_candidates) >= 1

\* C25: every successful next-batch response carries total_remaining equal
\* to the number of unreviewed candidates, also when that number is 0 and
\* the list of emails is empty.
C25_TotalRemainingAlwaysSent ==
  (reply.op = "next-batch" /\ reply.status = 200)
    => /\ reply.has_total
       /\ reply.total_remaining = countUnreviewed(email_candidates)

\* C26: a candidate is flagged reviewed exactly when the decision log holds
\* at least one row that references it.
C26_ReviewedIffDecided ==
  \A c \in email_candidates :
    c.reviewed = 1 <=> \E d \in review_decisions : d.email_candidate_id = c.id

\* C27: in the statistics of getStats the confirmed and the rejected count
\* add up to the reviewed count, and so do not exceed the total count.
C27_StatsConsistent ==
  LET stats == getStats(email_candidates, review_decisions)
  IN  /\ stats.confirmed_flights + stats.rejected = stats.reviewed
      /\ stats.confirmed_flights + stats.rejected <= stats.total_candidates

\* C28: the frontend sends at most one submitReview for an email: a decision
\* event that arrives before the first submit has resolved, or while the
\* refetch is pending, does not submit the same email again.
C28_OneSubmitPerEmail == app.resubmitted = {}

\* C29: the review loop drains the store: when the reviewer has no card left
\* to decide and no request is pending, every candidate is reviewed.
C29_LoopDrainsStore ==
  (app # NoApp /\ app.requests = <<>> /\ ~hasCurrentEmail(app))
    => countUnreviewed(email_candidates) = 0

\* The reviewed flags of the candidates that ids does not hold are the same
\* before and after the step, row by row.
FlagsKeptOutside(ids) ==
  \A c \in email_candidates :
    c.id \notin ids
      => \E c2 \in email_candidates' :
           c2.id = c.id /\ c2.reviewed = c.reviewed

\* C30: a successful undo removes one decision row, leaves every other
\* decision row as it was and changes the reviewed flag of no candidate but
\* the one that row references; a successful review changes the reviewed
\* flag of no candidate but the one its email_id names.
C30_OnlyTheNamedCandidateChanges ==
  [][/\ (last'.op = "undo" /\ last'.status = 200)
          => \E d \in review_decisions :
               /\ review_decisions' = review_decisions \ {d}
               /\ d.message_id = last'.email_id
               /\ FlagsKeptOutside({d.email_candidate_id})
     /\ (last'.op = "review" /\ last'.status = 200)
          => FlagsKeptOutside({c.id : c \in
                 getCandidateByMessageId(email_candidates, last'.email_id)})]_vars

\* An undo has succeeded while another candidate is reviewed and another
\* decision is in the log.
C30_UndoBesideOtherDecision ==
  /\ last.op = "undo"
  /\ last.status = 200
  /\ review_decisions # {}
  /\ \E c \in email_candidates :
       c.reviewed = 1 /\ c.message_id # last.email_id
====
